---- MODULE Spec2Model ----
(***************************************************************************)
(* Model of src/main.py: the Common Crawl download script.                 *)
(*                                                                         *)
(*   fetch_index()          one index query, line-delimited JSON -> records*)
(*   fetch_page(f, o, l)    pre-filter, range request, WARC extraction     *)
(*   is_marked_as_german(h) language meta-tag classifier                   *)
(*   main()                 the loop over the first 20 index records       *)
(*                                                                         *)
(* Text is a sequence of one-character strings.  A document is the         *)
(* sequence of its elements in document order, each with a tag and an      *)
(* attribute map; the empty sequence is the empty byte string.             *)
(***************************************************************************)
EXTENDS Integers, Sequences, FiniteSets, TLC

VARIABLES
    pc,          \* position of the running function
    exc,         \* the exception that ended the run, or "none"
    idxOutcome,  \* what the index query meets: an HTTP status or a transport error
    body,        \* response.text of the index query
    denyList,    \* NON_GERMAN_BCP47_CODES
    records,     \* the list fetch_index returned
    i,           \* how many records of the batch the loop has taken up
    file_name,   \* fetch_page argument
    offset,      \* fetch_page argument
    length,      \* fetch_page argument
    response,    \* the range response: status and the WARC records of its body
    readCount,   \* how many WARC records ArchiveIterator has read from response.raw
    content,     \* what fetch_page returned
    html,        \* is_marked_as_german argument
    verdict,     \* what is_marked_as_german returned
    lastLog,     \* the last log line written
    fetched,     \* batch positions for which fetch_page was called, in call order
    requests,    \* range requests sent to the data host, in order
    classified,  \* batch positions for which is_marked_as_german was called
    reported     \* batch positions for which logger.success was reached

vars == <<pc, exc, idxOutcome, body, denyList, records, i, file_name, offset, length,
          response, readCount, content, html, verdict, lastLog, fetched, requests,
          classified, reported>>

-----------------------------------------------------------------------------
(* Bounds of the explored inputs *)

MaxBody == 4      \* characters of an index body (SpecIndex)
MaxLines == 2     \* lines of a short index body (Spec)
Overshoot == 1    \* lines beyond the batch size in the longest index body (Spec)
MaxPre == 2       \* characters in front of a file name's middle part
MaxWarc == 2      \* WARC records in a range response
MaxDoc == 2       \* elements of a document
MaxOffset == 11   \* largest offset tried besides the spec's example
MaxLength == 3    \* largest length tried besides the spec's example

(* main(): for record in fetch_index()[:20] *)
BatchCap == 20

Min(a, b) == IF a <= b THEN a ELSE b

RECURSIVE SeqsUpTo(_, _)
SeqsUpTo(S, n) ==
    IF n = 0 THEN {<< >>}
    ELSE LET shorter == SeqsUpTo(S, n - 1)
         IN  shorter \cup {Append(s, c) : s \in shorter, c \in S}

-----------------------------------------------------------------------------
(* Python str operations *)

(* str.endswith *)
EndsWith(s, suffix) ==
    /\ Len(s) >= Len(suffix)
    /\ SubSeq(s, Len(s) - Len(suffix) + 1, Len(s)) = suffix

(* str.find from position k (1-based); 0 when absent *)
RECURSIVE Find(_, _, _)
Find(s, sub, k) ==
    IF k + Len(sub) - 1 > Len(s) THEN 0
    ELSE IF SubSeq(s, k, k + Len(sub) - 1) = sub THEN k
    ELSE Find(s, sub, k + 1)

(* sub in s *)
Contains(sub, s) == Find(s, sub, 1) # 0

Whitespace == {" ", "\n"}

RECURSIVE LStrip(_)
LStrip(s) ==
    IF s # << >> /\ Head(s) \in Whitespace THEN LStrip(Tail(s)) ELSE s

RECURSIVE RStrip(_)
RStrip(s) ==
    IF s # << >> /\ s[Len(s)] \in Whitespace
    THEN RStrip(SubSeq(s, 1, Len(s) - 1))
    ELSE s

(* str.strip() *)
Strip(s) == RStrip(LStrip(s))

(* str.split("\n"): always at least one piece *)
RECURSIVE SplitLines(_)
SplitLines(s) ==
    LET k == Find(s, <<"\n">>, 1)
    IN  IF k = 0 THEN <<s>>
        ELSE <<SubSeq(s, 1, k - 1)>> \o SplitLines(SubSeq(s, k + 1, Len(s)))

Digits == <<"0", "1", "2", "3", "4", "5", "6", "7", "8", "9">>

DigitValue(c) == CHOOSE d \in 0..9 : Digits[d + 1] = c

IsDigit(c) == \E d \in 0..9 : Digits[d + 1] = c

(* int(text) succeeds: a non-empty run of decimal digits *)
IntParses(text) == text # << >> /\ \A k \in 1..Len(text) : IsDigit(text[k])

(* int(text), base 10 *)
RECURSIVE IntOf(_)
IntOf(text) ==
    IF text = << >> THEN 0
    ELSE 10 * IntOf(SubSeq(text, 1, Len(text) - 1)) + DigitValue(text[Len(text)])

(* str(n) as the f-string formats an int *)
RECURSIVE StrOf(_)
StrOf(n) ==
    IF n < 0 THEN <<"-">> \o StrOf(0 - n)
    ELSE IF n < 10 THEN <<Digits[n + 1]>>
    ELSE StrOf(n \div 10) \o <<Digits[(n % 10) + 1]>>

-----------------------------------------------------------------------------
(* What the index and the data host can hold *)

ROBOTS == <<"r", "o", "b", "o", "t", "s", ".", "t", "x", "t">>
EN_US == <<"e", "n", "-", "U", "S">>
AR_AE == <<"a", "r", "-", "A", "E">>
WARC_GZ == <<"w", ".", "g", "z">>

(* Values NON_GERMAN_BCP47_CODES can take: codes of five or more characters *)
DenyTokens == {EN_US, AR_AE}
DenyLists == SUBSET DenyTokens

PathChars == {"/"}
Middles == {<< >>, EN_US, AR_AE, <<"e", "n", "-", "U">>, <<"r", "-", "A", "E">>}
Tails == {<< >>, WARC_GZ, ROBOTS, ROBOTS \o <<".", "g", "z">>, Tail(ROBOTS),
          SubSeq(ROBOTS, 1, Len(ROBOTS) - 1)}
FileNames == {p \o m \o t : p \in SeqsUpTo(PathChars, MaxPre), m \in Middles, t \in Tails}

PlainName == <<"c", "/">> \o WARC_GZ

(* One character of an index body stands for the JSON text of one record *)
JsonTokens == {"a", "b", "c", "d", "e"}

RecordOf(tok) ==
    CASE tok = "a" -> [urlkey |-> "de,a)/", filename |-> PlainName,
                       offset |-> <<"1", "0", "0">>, length |-> <<"5", "0">>]
      [] tok = "b" -> [urlkey |-> "de,b)/robots.txt", filename |-> <<"c", "/">> \o ROBOTS,
                       offset |-> <<"0">>, length |-> <<"7">>]
      [] tok = "c" -> [urlkey |-> "de,c)/en-us", filename |-> EN_US \o <<"/">> \o WARC_GZ,
                       offset |-> <<"9">>, length |-> <<"2">>]
      [] tok = "d" -> [urlkey |-> "de,d)/", filename |-> PlainName,
                       offset |-> <<"1", "x">>, length |-> <<"5">>]
      [] tok = "e" -> [urlkey |-> "de,e)/", filename |-> PlainName,
                       offset |-> <<"3">>, length |-> << >>]

Http(status) == [transport_error |-> FALSE, status_code |-> status]
TransportError == [transport_error |-> TRUE, status_code |-> 0]

IndexStatuses == {200, 404, 500}
RangeStatuses == {200, 204, 206, 404, 503}

(* Document elements: tag and attribute map *)
MetaDe == [tag |-> "meta", attrs |-> [name |-> "language", content |-> "de"]]
MetaEn == [tag |-> "meta", attrs |-> [name |-> "language", content |-> "en"]]
MetaDeDe == [tag |-> "meta", attrs |-> [name |-> "language", content |-> "de-DE"]]
MetaNoContent == [tag |-> "meta", attrs |-> [name |-> "language"]]
MetaAuthor == [tag |-> "meta", attrs |-> [name |-> "author", content |-> "de"]]
MetaNoName == [tag |-> "meta", attrs |-> [content |-> "de"]]
DivDe == [tag |-> "div", attrs |-> [name |-> "language", content |-> "de"]]

Elements == {MetaDe, MetaEn, MetaDeDe, MetaNoContent, MetaAuthor, MetaNoName, DivDe}
Documents == SeqsUpTo(Elements, MaxDoc)

(* Payloads of the WARC records of a range response *)
RequestPayload == <<DivDe>>
ResponsePayloads == {<< >>, <<MetaDe>>, <<MetaEn>>}
WarcRecords == {[rec_type |-> "request", payload |-> RequestPayload]}
               \cup {[rec_type |-> "response", payload |-> d] : d \in ResponsePayloads}

(* Streams with a record in front of the first response record and one behind it *)
Sandwiches ==
    {<<[rec_type |-> "request", payload |-> RequestPayload], r, s>> :
        r \in {w \in WarcRecords : w.rec_type = "response"}, s \in WarcRecords}
WarcStreams == SeqsUpTo(WarcRecords, MaxWarc) \cup Sandwiches

NoResponse == [status_code |-> 0, raw |-> << >>]

(* Optional[bytes] *)
None == [is_none |-> TRUE, bytes |-> << >>]
Some(bytes) == [is_none |-> FALSE, bytes |-> bytes]

NoLog == [level |-> "none", message |-> ""]
Log(level, message) == [level |-> level, message |-> message]

-----------------------------------------------------------------------------
(* fetch_index *)

(* raise_for_status() taken to raise for server errors only *)
RaisesForServerError(status) == status >= 500 /\ status < 600

(* response.raise_for_status() raises HTTPError: a 4xx or 5xx status *)
RaisesForStatus(status) == status >= 400 /\ status < 600

(* json.loads(line) succeeds: one JSON value, whitespace around it allowed *)
JsonParses(line) == Len(Strip(line)) = 1 /\ Strip(line)[1] \in JsonTokens

(* json.loads(line) *)
JsonLoads(line) == RecordOf(Strip(line)[1])

(* response.text.strip().split("\n") *)
IndexLines(text) == SplitLines(Strip(text))

FetchIndex ==
    /\ pc = "start"
    /\ IF idxOutcome.transport_error
       THEN /\ pc' = "crashed"
            /\ exc' = "ConnectionError"
            /\ UNCHANGED <<records, lastLog>>
       ELSE IF RaisesForStatus(idxOutcome.status_code)
       THEN /\ lastLog' = Log("critical", "Failed to fetch index")
            /\ records' = << >>
            /\ pc' = "loop"
            /\ UNCHANGED exc
       ELSE LET lines == IndexLines(body)
            IN  IF \E k \in 1..Len(lines) : ~JsonParses(lines[k])
                THEN /\ pc' = "crashed"
                     /\ exc' = "JSONDecodeError"
                     /\ UNCHANGED <<records, lastLog>>
                ELSE /\ records' = [k \in 1..Len(lines) |-> JsonLoads(lines[k])]
                     /\ lastLog' = Log("info", "Received records from Common Crawl")
                     /\ pc' = "loop"
                     /\ UNCHANGED exc
    /\ UNCHANGED <<idxOutcome, body, denyList, i, file_name, offset, length, response,
                   readCount, content, html, verdict, fetched, requests, classified,
                   reported>>

-----------------------------------------------------------------------------
(* fetch_page *)

(* robots.txt looked for anywhere in the name instead of at its end *)
IsRobotsAnywhere(name) == Contains(ROBOTS, name)

(* file_name.endswith("robots.txt") *)
IsRobots(name) == EndsWith(name, ROBOTS)

(* some bcp47_code of NON_GERMAN_BCP47_CODES is in file_name *)
HasDeniedCode(name, codes) == \E code \in codes : Contains(code, name)

PreFilter ==
    /\ pc = "prefilter"
    /\ IF IsRobots(file_name)
       THEN /\ lastLog' = Log("debug", "Skipping robots.txt")
            /\ content' = None
            /\ pc' = "after_fetch"
       ELSE IF HasDeniedCode(file_name, denyList)
       THEN /\ lastLog' = Log("debug", "Skipping non-German site")
            /\ content' = None
            /\ pc' = "after_fetch"
       ELSE /\ lastLog' = Log("info", "Download from url")
            /\ pc' = "send"
            /\ UNCHANGED content
    /\ UNCHANGED <<exc, idxOutcome, body, denyList, records, i, file_name, offset, length,
                   response, readCount, html, verdict, fetched, requests, classified,
                   reported>>

(* the end of the range taken as exclusive: the length-1 correction left out *)
RangeHeaderExclusiveEnd(off, len) ==
    <<"b", "y", "t", "e", "s", "=">> \o StrOf(off) \o <<"-">> \o StrOf(off + len)

(* f"bytes={offset}-{offset + length - 1}" *)
RangeHeader(off, len) ==
    <<"b", "y", "t", "e", "s", "=">> \o StrOf(off) \o <<"-">> \o StrOf(off + len - 1)

(* requests.get(url, headers, stream=True): the request goes out; the transport
   fails (an exception leaves fetch_page) or the data host answers *)
SendRange ==
    /\ pc = "send"
    /\ requests' = Append(requests, [host |-> "data.commoncrawl.org", path |-> file_name,
                                     range |-> RangeHeader(offset, length), batch_pos |-> i])
    /\ \/ /\ pc' = "crashed"
          /\ exc' = "ConnectionError"
          /\ UNCHANGED response
       \/ \E status \in RangeStatuses, raw \in WarcStreams :
             /\ response' = [status_code |-> status, raw |-> raw]
             /\ pc' = "response"
             /\ UNCHANGED exc
    /\ UNCHANGED <<idxOutcome, body, denyList, records, i, file_name, offset, length,
                   readCount, content, html, verdict, lastLog, fetched, classified,
                   reported>>

(* any 2xx status taken for partial content *)
IsSuccessStatus(status) == status >= 200 /\ status < 300

(* response.status_code == 206 *)
IsPartialContent(status) == status = 206

(* the rec_type test left out: the loop returns at the first record of any type *)
ScanWarcAnyType(raw, k) == IF k > Len(raw) THEN 0 ELSE k

(* for warc_record in ArchiveIterator(...): if warc_record.rec_type == "response":
   the position of the record the loop returns at, scanning from k; 0 when the
   stream ends first *)
RECURSIVE ScanWarc(_, _)
ScanWarc(raw, k) ==
    IF k > Len(raw) THEN 0
    ELSE IF raw[k].rec_type = "response" THEN k
    ELSE ScanWarc(raw, k + 1)

HandleResponse ==
    /\ pc = "response"
    /\ IF RaisesForStatus(response.status_code)
       THEN /\ lastLog' = Log("critical", "Failed to fetch data")
            /\ content' = None
            /\ UNCHANGED readCount
       ELSE IF IsPartialContent(response.status_code)
                 /\ ScanWarc(response.raw, 1) # 0
       THEN /\ content' = Some(response.raw[ScanWarc(response.raw, 1)].payload)
            /\ readCount' = ScanWarc(response.raw, 1)
            /\ UNCHANGED lastLog
       ELSE /\ lastLog' = Log("info", "No valid WARC record found in the given records")
            /\ content' = None
            /\ readCount' = IF IsPartialContent(response.status_code)
                            THEN Len(response.raw) ELSE 0
    /\ pc' = "after_fetch"
    /\ UNCHANGED <<exc, idxOutcome, body, denyList, records, i, file_name, offset, length,
                   response, html, verdict, fetched, requests, classified, reported>>

-----------------------------------------------------------------------------
(* is_marked_as_german *)

IsLanguageMeta(el) ==
    /\ el.tag = "meta"
    /\ "name" \in DOMAIN el.attrs
    /\ el.attrs["name"] = "language"

(* soup.find(name="meta", attrs={"name": "language"}): the position of the first
   such element in document order from k; 0 for None *)
RECURSIVE SoupFind(_, _)
SoupFind(doc, k) ==
    IF k > Len(doc) THEN 0
    ELSE IF IsLanguageMeta(doc[k]) THEN k
    ELSE SoupFind(doc, k + 1)

is_marked_as_german(doc) ==
    LET at == SoupFind(doc, 1)
    IN  IF at # 0
        THEN LET attrs == doc[at].attrs
             IN  IF "content" \notin DOMAIN attrs
                 THEN [result |-> FALSE,
                       log |-> Log("warning", "HTML language meta-tag doesn't contain 'content'.")]
                 ELSE IF attrs["content"] = "de"
                 THEN [result |-> TRUE, log |-> NoLog]
                 ELSE [result |-> FALSE, log |-> Log("debug", attrs["content"])]
        ELSE [result |-> FALSE, log |-> Log("warning", "No language-tag found!")]

Classify ==
    /\ pc = "classify"
    /\ verdict' = is_marked_as_german(html).result
    /\ lastLog' = IF is_marked_as_german(html).log = NoLog
                  THEN lastLog ELSE is_marked_as_german(html).log
    /\ pc' = "classified"
    /\ UNCHANGED <<exc, idxOutcome, body, denyList, records, i, file_name, offset, length,
                   response, readCount, content, html, fetched, requests, classified,
                   reported>>

-----------------------------------------------------------------------------
(* main *)

(* the [:20] slice left out *)
BatchUncapped(recs) == recs

(* fetch_index()[:20] *)
Batch(recs) == SubSeq(recs, 1, Min(Len(recs), BatchCap))

(* The for statement takes the next record of the batch and evaluates the
   arguments of the fetch_page call: int(record["offset"]), int(record["length"]).
   A ValueError of int() is caught nowhere and leaves main. *)
NextRecord ==
    /\ pc = "loop"
    /\ IF i >= Len(Batch(records))
       THEN /\ pc' = "done"
            /\ UNCHANGED <<exc, i, file_name, offset, length, fetched>>
       ELSE LET record == Batch(records)[i + 1]
            IN  /\ i' = i + 1
                /\ IF IntParses(record.offset) /\ IntParses(record.length)
                   THEN /\ file_name' = record.filename
                        /\ offset' = IntOf(record.offset)
                        /\ length' = IntOf(record.length)
                        /\ fetched' = Append(fetched, i + 1)
                        /\ pc' = "prefilter"
                        /\ UNCHANGED exc
                   ELSE /\ pc' = "crashed"
                        /\ exc' = "ValueError"
                        /\ UNCHANGED <<file_name, offset, length, fetched>>
    /\ UNCHANGED <<idxOutcome, body, denyList, records, response, readCount, content,
                   html, verdict, lastLog, requests, classified, reported>>

(* if not content: continue -- None and b"" are both falsy.  fetch_page has
   returned, so its response object is gone. *)
AfterFetch ==
    /\ pc = "after_fetch"
    /\ response' = NoResponse
    /\ readCount' = 0
    /\ IF content.is_none \/ content.bytes = << >>
       THEN /\ pc' = "loop"
            /\ content' = None
            /\ UNCHANGED <<html, classified>>
       ELSE /\ pc' = "classify"
            /\ html' = content.bytes
            /\ classified' = Append(classified, i)
            /\ UNCHANGED content
    /\ UNCHANGED <<exc, idxOutcome, body, denyList, records, i, file_name, offset, length,
                   verdict, lastLog, fetched, requests, reported>>

(* if not is_marked_as_german(html=content): continue; logger.success("Now what?").
   The iteration ends here and its values are never read again. *)
Report ==
    /\ pc = "classified"
    /\ IF verdict
       THEN /\ reported' = Append(reported, i)
            /\ lastLog' = Log("success", "Now what?")
       ELSE UNCHANGED <<reported, lastLog>>
    /\ content' = None
    /\ html' = << >>
    /\ verdict' = FALSE
    /\ pc' = "loop"
    /\ UNCHANGED <<exc, idxOutcome, body, denyList, records, i, file_name, offset, length,
                   response, readCount, fetched, requests, classified>>

-----------------------------------------------------------------------------
(* Specifications *)

(* Each record on a line of its own, every line ended by a newline *)
RECURSIVE JoinLines(_)
JoinLines(tokens) ==
    IF tokens = << >> THEN << >>
    ELSE <<Head(tokens), "\n">> \o JoinLines(Tail(tokens))

(* n records: downloadable ones first and from the batch size on, robots.txt
   entries between them *)
LongBody(n) ==
    JoinLines([k \in 1..n |-> IF k = 1 \/ k >= BatchCap THEN "a" ELSE "b"])

MainBodies ==
    {JoinLines(ts) : ts \in SeqsUpTo(JsonTokens, MaxLines)}
    \cup {LongBody(n) : n \in (BatchCap - 1)..(BatchCap + Overshoot)}
    \cup {<<"a", "\n", "\n", "c", "\n">>}

IndexOutcomes == {Http(s) : s \in IndexStatuses} \cup {TransportError}

Idle ==
    /\ exc = "none"
    /\ records = << >>
    /\ i = 0
    /\ response = NoResponse
    /\ readCount = 0
    /\ content = None
    /\ verdict = FALSE
    /\ lastLog = NoLog
    /\ fetched = << >>
    /\ requests = << >>
    /\ classified = << >>
    /\ reported = << >>

(* main() from its start *)
Init ==
    /\ pc = "start"
    /\ idxOutcome \in IndexOutcomes
    /\ body \in MainBodies
    /\ denyList \in {{}, DenyTokens}
    /\ file_name = << >>
    /\ offset = 0
    /\ length = 0
    /\ html = << >>
    /\ Idle

Next ==
    \/ FetchIndex
    \/ NextRecord
    \/ PreFilter
    \/ SendRange
    \/ HandleResponse
    \/ AfterFetch
    \/ Classify
    \/ Report

Spec == Init /\ [][Next]_vars

(* fetch_index() alone, on every body of up to MaxBody characters *)
BodyChars == {"\n", " ", "a", "c", "d"}

InitIndex ==
    /\ pc = "start"
    /\ idxOutcome \in IndexOutcomes
    /\ body \in SeqsUpTo(BodyChars, MaxBody)
    /\ denyList = {}
    /\ file_name = << >>
    /\ offset = 0
    /\ length = 0
    /\ html = << >>
    /\ Idle

NextIndex == FetchIndex

SpecIndex == InitIndex /\ [][NextIndex]_vars

(* fetch_page(file_name, offset, length) alone *)
PageArguments ==
    {<<f, 100, 50, d>> : f \in FileNames, d \in DenyLists}
    \cup {<<PlainName, o, l, {}>> : o \in 0..MaxOffset, l \in 1..MaxLength}

InitPage ==
    /\ pc = "prefilter"
    /\ idxOutcome = Http(200)
    /\ body = << >>
    /\ \E a \in PageArguments :
          /\ file_name = a[1]
          /\ offset = a[2]
          /\ length = a[3]
          /\ denyList = a[4]
    /\ html = << >>
    /\ Idle

NextPage ==
    \/ PreFilter
    \/ SendRange
    \/ HandleResponse

SpecPage == InitPage /\ [][NextPage]_vars

(* is_marked_as_german(html) alone *)
InitClassify ==
    /\ pc = "classify"
    /\ idxOutcome = Http(200)
    /\ body = << >>
    /\ denyList = {}
    /\ file_name = << >>
    /\ offset = 0
    /\ length = 0
    /\ Idle
    /\ html \in Documents

NextClassify == Classify

SpecClassify == InitClassify /\ [][NextClassify]_vars

-----------------------------------------------------------------------------
(* Properties of fetch_page, checked under SpecPage *)

(* tok occurs in name at some position *)
OccursIn(tok, name) ==
    \E a \in 0..Len(name) :
        /\ a + Len(tok) <= Len(name)
        /\ \A j \in 1..Len(tok) : name[a + j] = tok[j]

(* the last characters of name spell robots.txt *)
RobotsSuffix(name) ==
    /\ Len(name) >= Len(ROBOTS)
    /\ \A j \in 1..Len(ROBOTS) : name[Len(name) - Len(ROBOTS) + j] = ROBOTS[j]

Eligible == ~RobotsSuffix(file_name) /\ \A tok \in denyList : ~OccursIn(tok, file_name)

(* C1: once the pre-filter has run, fetch_page goes on to the range request
   (one request, for this file name, to the data host) exactly when the file name
   neither ends with robots.txt nor contains a DenyList token; in every other case
   it has returned None and no request has gone out. *)
C1_PreFilterDecidesRequest ==
    pc # "prefilter" =>
        /\ Eligible =>
              \/ pc = "send" /\ requests = << >> /\ ENABLED SendRange
              \/ /\ Len(requests) = 1
                 /\ requests[1].path = file_name
                 /\ requests[1].host = "data.commoncrawl.org"
        /\ ~Eligible =>
              /\ pc = "after_fetch"
              /\ content = None
              /\ requests = << >>
              /\ response = NoResponse

(* a file name with a DenyList token in it and no robots.txt suffix was turned
   away without a request *)
C1_Witness ==
    /\ pc = "after_fetch"
    /\ requests = << >>
    /\ ~RobotsSuffix(file_name)
    /\ \E tok \in denyList : OccursIn(tok, file_name)

ResponsePositions(raw) == {k \in 1..Len(raw) : raw[k].rec_type = "response"}

FirstResponsePosition(raw) ==
    CHOOSE k \in ResponsePositions(raw) : \A j \in ResponsePositions(raw) : k <= j

(* C2: on a 206 response fetch_page returns the whole payload of the first
   record of type "response" in stream order and has read no record behind it;
   with no such record in the stream it returns None. *)
C2_FirstResponseRecord ==
    (pc = "after_fetch" /\ response.status_code = 206) =>
        IF ResponsePositions(response.raw) # {}
        THEN /\ content = Some(response.raw[FirstResponsePosition(response.raw)].payload)
             /\ readCount = FirstResponsePosition(response.raw)
        ELSE content = None

(* a 206 stream with a request record in front of the returned response record
   and an unread response record of another payload behind it *)
C2_Witness ==
    /\ pc = "after_fetch"
    /\ response.status_code = 206
    /\ Len(response.raw) = 3
    /\ response.raw[1].rec_type = "request"
    /\ response.raw[2].rec_type = "response"
    /\ response.raw[3].rec_type = "response"
    /\ response.raw[3].payload # response.raw[2].payload
    /\ content = Some(response.raw[2].payload)
    /\ readCount = 2

(* C3: fetch_page returns a payload only for status 206; for every other status
   it returns None, without an exception and without reading a WARC record. *)
C3_Only206 ==
    /\ response # NoResponse => pc \in {"response", "after_fetch"} /\ exc = "none"
    /\ (pc = "after_fetch" /\ response # NoResponse) =>
          /\ ~content.is_none => response.status_code = 206
          /\ response.status_code # 206 => content = None /\ readCount = 0

(* status 200 with a response record in the body: None *)
C3_Witness ==
    /\ pc = "after_fetch"
    /\ response.status_code = 200
    /\ ResponsePositions(response.raw) # {}
    /\ content = None

BytesPrefix == <<"b", "y", "t", "e", "s", "=">>

(* the text of header h before and after its dash *)
FirstBytePos(h) == SubSeq(h, Len(BytesPrefix) + 1, Find(h, <<"-">>, 1) - 1)
LastBytePos(h) == SubSeq(h, Find(h, <<"-">>, 1) + 1, Len(h))

(* C4: the Range header of the request is bytes=<offset>-<offset+length-1> in
   decimal: the range starts at offset, ends (inclusive) at offset+length-1 and so
   covers length bytes; offset 100 and length 50 give bytes=100-149. *)
C4_RangeHeader ==
    \A k \in 1..Len(requests) :
        LET h == requests[k].range
        IN  /\ SubSeq(h, 1, Len(BytesPrefix)) = BytesPrefix
            /\ IntParses(FirstBytePos(h))
            /\ IntParses(LastBytePos(h))
            /\ IntOf(FirstBytePos(h)) = offset
            /\ IntOf(LastBytePos(h)) = offset + length - 1
            /\ IntOf(LastBytePos(h)) - IntOf(FirstBytePos(h)) + 1 = length
            /\ Len(FirstBytePos(h)) > 1 => FirstBytePos(h)[1] # "0"
            /\ Len(LastBytePos(h)) > 1 => LastBytePos(h)[1] # "0"
            /\ (offset = 100 /\ length = 50) =>
                  h = <<"b", "y", "t", "e", "s", "=", "1", "0", "0", "-", "1", "4", "9">>

(* the request for offset 100, length 50 has gone out *)
C4_Witness == Len(requests) = 1 /\ offset = 100 /\ length = 50

-----------------------------------------------------------------------------
(* Properties of is_marked_as_german, checked under SpecClassify *)

(* C5: is_marked_as_german reports a match exactly when the document contains
   a meta element with name="language" whose content is "de"; without a match it
   warns when there is no language meta element or the one found has no content,
   and logs the observed value at debug level otherwise. *)
C5_MatchIffContainsTag ==
    pc = "classified" =>
        /\ verdict <=> \E k \in 1..Len(html) : html[k] = MetaDe
        /\ ~verdict => lastLog.level \in {"warning", "debug"}

-----------------------------------------------------------------------------
(* Properties of fetch_index, checked under SpecIndex *)

(* every line of text is empty or the JSON text of one record *)
LineDelimited(text) ==
    \A k \in 1..Len(text) :
        /\ text[k] \in JsonTokens \cup {"\n"}
        /\ (k < Len(text) /\ text[k] \in JsonTokens) => text[k + 1] = "\n"

RECURSIVE RecordsOfLines(_)
RecordsOfLines(text) ==
    IF text = << >> THEN << >>
    ELSE IF Head(text) = "\n" THEN RecordsOfLines(Tail(text))
    ELSE <<RecordOf(Head(text))>> \o RecordsOfLines(Tail(text))

(* C7: on a success status fetch_index returns one record per non-empty line
   of the line-delimited body, in body order, and raises nothing: an empty body
   or blank lines between records give the records of the non-empty lines. *)
C7_OneRecordPerNonEmptyLine ==
    (/\ pc # "start"
     /\ ~idxOutcome.transport_error
     /\ idxOutcome.status_code \in 200..299
     /\ LineDelimited(body)) =>
        /\ pc = "loop"
        /\ exc = "none"
        /\ records = RecordsOfLines(body)

-----------------------------------------------------------------------------
(* Properties of main, checked under Spec *)

Positions(log) == [k \in 1..Len(log) |-> log[k].batch_pos]

StrictlyIncreasing(seq) == \A j, k \in 1..Len(seq) : j < k => seq[j] < seq[k]

(* C6: after an index query answered with a non-success status fetch_index
   has returned no record and raised nothing, and the run makes no fetch_page call,
   no range request and no classification before it ends normally. *)
C6_IndexFailureStopsQuietly ==
    (/\ pc # "start"
     /\ ~idxOutcome.transport_error
     /\ idxOutcome.status_code \notin 200..299) =>
        /\ pc \in {"loop", "done"}
        /\ pc = "loop" => ENABLED NextRecord
        /\ exc = "none"
        /\ records = << >>
        /\ i = 0
        /\ fetched = << >>
        /\ requests = << >>
        /\ classified = << >>
        /\ reported = << >>

(* the run has ended normally after a 500 from the index *)
C6_Witness ==
    /\ pc = "done"
    /\ idxOutcome = Http(500)
    /\ body # << >>

Unparseable(record) == ~IntParses(record.offset) \/ ~IntParses(record.length)

(* C8: a record whose offset or length is no base-10 integer is abandoned
   without a range request, and the run goes on to the later records instead of
   ending with the ValueError. *)
C8_BadRecordAbandonedOnly ==
    \A k \in 1..i :
        Unparseable(Batch(records)[k]) =>
            /\ \A r \in 1..Len(requests) : requests[r].batch_pos # k
            /\ exc # "ValueError"
            /\ pc # "crashed"

(* C9: a transport error of a range request does not end the run. *)
C9_TransportErrorNotFatal ==
    ~(pc = "crashed" /\ exc = "ConnectionError" /\ requests # << >>)

(* C10: the loop takes up the first min(N, 20) records fetch_index returned,
   one at a time in index order and each once; all work in progress belongs to the
   record taken up last; a None or "not a match" leaves the loop running; there is
   at most one range request per record; matches are reported in index order; and
   the run is over only when all of the batch has been taken up. *)
C10_SequentialBatch ==
    (exc \notin {"ValueError", "ConnectionError"}) =>
        /\ i <= Min(Len(records), BatchCap)
        /\ fetched = [k \in 1..i |-> k]
        /\ \A k \in 1..Len(requests) :
              /\ requests[k].batch_pos \in 1..i
              /\ requests[k].path = records[requests[k].batch_pos].filename
        /\ StrictlyIncreasing(Positions(requests))
        /\ StrictlyIncreasing(classified)
        /\ StrictlyIncreasing(reported)
        /\ \A k \in 1..Len(reported) : \E j \in 1..Len(classified) : classified[j] = reported[k]
        /\ \A k \in 1..Len(classified) :
              \E j \in 1..Len(requests) : requests[j].batch_pos = classified[k]
        /\ pc \in {"prefilter", "send", "response", "after_fetch", "classify", "classified"}
              => i >= 1
        /\ pc = "loop" => content = None /\ response = NoResponse /\ ENABLED NextRecord
        /\ pc = "crashed" => exc = "JSONDecodeError" /\ i = 0
        /\ pc = "done" => i = Min(Len(records), BatchCap)

(* a run over more than 20 records has ended after 20 of them, with a record
   that gave no match followed by a reported match *)
C10_Witness ==
    /\ pc = "done"
    /\ Len(records) > BatchCap
    /\ i = BatchCap
    /\ Len(requests) = 2
    /\ classified = <<1, BatchCap>>
    /\ reported = <<BatchCap>>

====
